---------------------------- MODULE Spec2Model ----------------------------
(***************************************************************************)
(* Model of instavibeapp_v1/setup.py: the Schema Manager                   *)
(* (setup_base_schema_and_indexes, setup_graph_definition, both through    *)
(* run_ddl_statements), the Seed Loader (insert_relational_data) and the   *)
(* script's main block, run against a Spanner database whose schema and    *)
(* table contents persist from one run of the script to the next.          *)
(***************************************************************************)
EXTENDS Integers, Sequences, FiniteSets, TLC

(***************************************************************************)
(* Bounds of the model.                                                    *)
(***************************************************************************)
MaxRuns == 2          \* runs of the script against the same database
MaxFriend == 3        \* length of the source friendship list
MaxLocs == 2          \* locations listed by one event
MaxPages == 2         \* pages of one topic
MaxAttend == 2        \* length of the source attendance list
MaxPosts == 2         \* length of the source post list

None == "None"
DB == "database"

(***************************************************************************)
(* The DDL statements.  A statement creates one named schema object; it    *)
(* carries IF NOT EXISTS or not, and names the objects it refers to.       *)
(***************************************************************************)
Table(n, ine, needs) ==
    [name |-> n, kind |-> "table", if_not_exists |-> ine, needs |-> needs]

Index(n, on) ==
    [name |-> n, kind |-> "index", if_not_exists |-> TRUE, needs |-> {on}]

TopicContentDDL == Table("TopicContent", FALSE, {"Topic"})

BaseDDL ==
    << Table("Person", TRUE, {}),
       Table("Event", TRUE, {}),
       Table("Post", TRUE, {}),
       Table("Friendship", TRUE, {}),
       Table("Attendance", TRUE, {}),
       Table("Topic", TRUE, {}),
       TopicContentDDL,
       Table("Mention", TRUE, {}),
       Table("Location", TRUE, {}),
       Table("EventLocation", TRUE, {"Event", "Location"}),
       Index("PersonByName", "Person"),
       Index("EventByDate", "Event"),
       Index("PostByTimestamp", "Post"),
       Index("PostByAuthor", "Post"),
       Index("FriendshipByPersonB", "Friendship"),
       Index("AttendanceByEvent", "Attendance"),
       Index("MentionByPerson", "Mention"),
       Index("EventLocationByLocationId", "EventLocation"),
       Index("TopicContentByPage", "TopicContent") >>

GraphDDL ==
    << [name |-> "SocialGraph", kind |-> "graph", if_not_exists |-> TRUE,
        needs |-> {"Person", "Event", "Post", "Location", "Friendship",
                   "Attendance", "Mention", "EventLocation"}] >>

Names(ddl_list) == {ddl_list[i].name : i \in 1..Len(ddl_list)}

TableNames == {BaseDDL[i].name : i \in {j \in 1..Len(BaseDDL) : BaseDDL[j].kind = "table"}}
IndexNames == {BaseDDL[i].name : i \in {j \in 1..Len(BaseDDL) : BaseDDL[j].kind = "index"}}
AllObjects == Names(BaseDDL) \cup Names(GraphDDL)

(***************************************************************************)
(* What the database can signal to a schema change.  A duplicate name is   *)
(* reported as FailedPrecondition or AlreadyExists, a reference to a       *)
(* missing object as InvalidArgument, FailedPrecondition or an error of    *)
(* another class; a fault of the service (deadline, anything else) can hit *)
(* any statement.  Which one is the database's choice: env.                *)
(***************************************************************************)
DuplicateSignals == {"FailedPrecondition", "AlreadyExists"}
DependencySignals == {"InvalidArgument", "FailedPrecondition", "Unexpected"}
FaultSignals == {"DeadlineExceeded", "Unexpected"}
ErrorSignals == DuplicateSignals \cup DependencySignals \cup FaultSignals

DdlEnv(ddl_list) ==
    [faultAt : 0..Len(ddl_list), fault : FaultSignals,
     dup : DuplicateSignals, dep : DependencySignals]

(***************************************************************************)
(* database.update_ddl(ddl_list) followed by operation.result(360): the    *)
(* statements are applied in order; the first one that fails ends the      *)
(* batch, the ones before it stay applied (DDL is not transactional).      *)
(***************************************************************************)
RECURSIVE update_ddl(_, _, _, _)
update_ddl(sch, ddl_list, i, env) ==
    IF i > Len(ddl_list)
    THEN [schema |-> sch, signal |-> "ok", cause |-> "none", stmt |-> 0]
    ELSE IF i = env.faultAt
    THEN [schema |-> sch, signal |-> env.fault, cause |-> "fault", stmt |-> i]
    ELSE LET s == ddl_list[i] IN
         IF s.name \in sch
         THEN IF s.if_not_exists
              THEN update_ddl(sch, ddl_list, i + 1, env)
              ELSE [schema |-> sch, signal |-> env.dup,
                    cause |-> "duplicate", stmt |-> i]
         ELSE IF ~(s.needs \subseteq sch)
         THEN [schema |-> sch, signal |-> env.dep,
               cause |-> "dependency", stmt |-> i]
         ELSE update_ddl(sch \cup {s.name}, ddl_list, i + 1, env)


(***************************************************************************)
(* run_ddl_statements: the value returned for what the database signalled. *)
(***************************************************************************)
\* already-exists and failed-precondition treated as fatal
DdlReturnStrict(signal) == signal = "ok"

\* invalid-argument treated as benign
DdlReturnLenient(signal) ==
    signal \in {"ok", "FailedPrecondition", "AlreadyExists", "InvalidArgument"}

DdlReturn(signal) ==
    CASE signal = "ok" -> TRUE
      [] signal \in {"FailedPrecondition", "AlreadyExists"} -> TRUE
      [] signal = "InvalidArgument" -> FALSE
      [] signal = "DeadlineExceeded" -> FALSE
      [] OTHER -> FALSE

run_ddl_statements(db_instance, ddl_list, sch, env) ==
    IF db_instance = None
    THEN [ret |-> FALSE, schema |-> sch, signal |-> "none", cause |-> "none",
          stmt |-> 0, calls |-> 0]
    ELSE LET r == update_ddl(sch, ddl_list, 1, env) IN
         [ret |-> DdlReturn(r.signal), schema |-> r.schema, signal |-> r.signal,
          cause |-> r.cause, stmt |-> r.stmt, calls |-> 1]

setup_base_schema_and_indexes(db_instance, sch, env) ==
    run_ddl_statements(db_instance, BaseDDL, sch, env)

\* with the DROP PROPERTY GRAPH IF EXISTS statement of line 179 switched on
setup_graph_definition_with_drop(db_instance, sch, env) ==
    run_ddl_statements(db_instance, GraphDDL, sch \ {"SocialGraph"}, env)

setup_graph_definition(db_instance, sch, env) ==
    run_ddl_statements(db_instance, GraphDDL, sch, env)

(***************************************************************************)
(* generate_uuid.  uuid4 values are distinct and in no particular order:   *)
(* the n-th value generated is the n-th element of an injective sequence,  *)
(* which the order parameter selects.                                      *)
(***************************************************************************)
UuidOrders == {"asc", "desc", "mixed"}

generate_uuid(order, n) ==
    CASE order = "asc" -> n + 1
      [] order = "desc" -> 0 - (n + 1)
      [] OTHER -> IF n % 2 = 0 THEN n + 1 ELSE 0 - (n + 1)

(***************************************************************************)
(* Dates of the event descriptors, and dateutil's isoparse on them.        *)
(***************************************************************************)
DateNaive == "2025-05-01T10:00:00"
DateAware == "2025-05-01T10:00:00+02:00"
DateStrings == {None, "", "not-a-date", DateNaive, DateAware}

isoparse(ts_str) ==
    CASE ts_str = DateNaive -> [ok |-> TRUE, hour |-> 10, aware |-> FALSE, utcoffset |-> 0]
      [] ts_str = DateAware -> [ok |-> TRUE, hour |-> 10, aware |-> TRUE, utcoffset |-> 2]
      [] OTHER -> [ok |-> FALSE, hour |-> 0, aware |-> FALSE, utcoffset |-> 0]

\* ts.replace(tzinfo=utc) for a naive date, ts.astimezone(utc) for an aware one
ToUtc(ts) ==
    IF ~ts.aware THEN ts.hour ELSE ts.hour - ts.utcoffset

(***************************************************************************)
(* The rows insert_relational_data prepares.  st is the state of the       *)
(* function's locals: the maps, the row lists and n, the number of uuids   *)
(* generated so far.                                                       *)
(***************************************************************************)
Extend(f, k, v) == [x \in (DOMAIN f) \cup {k} |-> IF x = k THEN v ELSE f[x]]

EmptyMap == [x \in {} |-> 0]

\* the ids of a call derived anew from the start of the sequence, so that two
\* calls draw the same ids
EmptyLocalsRestart(n, order) ==
    [n |-> 0, order |-> order,
     people_map |-> EmptyMap, event_map |-> EmptyMap,
     locations_map |-> EmptyMap, topic_map |-> EmptyMap,
     people_rows |-> <<>>, events_rows |-> <<>>, posts_rows |-> <<>>,
     friendship_rows |-> <<>>, attendance_rows |-> <<>>, mention_rows |-> <<>>,
     locations_rows |-> <<>>, event_locations_rows |-> <<>>,
     topic_rows |-> <<>>, topic_content_rows |-> <<>>,
     unique_friendship_pairs |-> {}, skipped_posts |-> 0]

EmptyLocals(n, order) ==
    [n |-> n, order |-> order,
     people_map |-> EmptyMap, event_map |-> EmptyMap,
     locations_map |-> EmptyMap, topic_map |-> EmptyMap,
     people_rows |-> <<>>, events_rows |-> <<>>, posts_rows |-> <<>>,
     friendship_rows |-> <<>>, attendance_rows |-> <<>>, mention_rows |-> <<>>,
     locations_rows |-> <<>>, event_locations_rows |-> <<>>,
     topic_rows |-> <<>>, topic_content_rows |-> <<>>,
     unique_friendship_pairs |-> {}, skipped_posts |-> 0]

\* 1. people
RECURSIVE PreparePeople(_, _, _)
PreparePeople(people_data, i, st) ==
    IF i > Len(people_data) THEN st
    ELSE LET name == people_data[i]
             person_id == generate_uuid(st.order, st.n)
         IN PreparePeople(people_data, i + 1,
              [st EXCEPT !.n = @ + 1,
                         !.people_map = Extend(@, name, person_id),
                         !.people_rows = Append(@, [person_id |-> person_id,
                                                    name |-> name])])

\* every listed location given a Location row of its own, known key or not
RECURSIVE PrepareLocationsNoDedup(_, _, _, _)
PrepareLocationsNoDedup(locations, j, event_id, st) ==
    IF j > Len(locations) THEN st
    ELSE LET loc_detail == locations[j]
             loc_key_tuple == <<loc_detail.name, loc_detail.latitude,
                                loc_detail.longitude>>
             location_id == generate_uuid(st.order, st.n)
             st1 == [st EXCEPT
                       !.n = @ + 1,
                       !.locations_map = Extend(@, loc_key_tuple, location_id),
                       !.locations_rows =
                           Append(@, [location_id |-> location_id,
                                      name |-> loc_detail.name,
                                      latitude |-> loc_detail.latitude,
                                      longitude |-> loc_detail.longitude])]
         IN PrepareLocationsNoDedup(locations, j + 1, event_id,
              [st1 EXCEPT !.event_locations_rows =
                  Append(@, [event_id |-> event_id, location_id |-> location_id])])

\* 2. the locations of one event
RECURSIVE PrepareLocations(_, _, _, _)
PrepareLocations(locations, j, event_id, st) ==
    IF j > Len(locations) THEN st
    ELSE LET loc_detail == locations[j]
             loc_key_tuple == <<loc_detail.name, loc_detail.latitude,
                                loc_detail.longitude>>
             isNew == loc_key_tuple \notin DOMAIN st.locations_map
             location_id == IF isNew THEN generate_uuid(st.order, st.n)
                            ELSE st.locations_map[loc_key_tuple]
             st1 == IF isNew
                    THEN [st EXCEPT
                           !.n = @ + 1,
                           !.locations_map = Extend(@, loc_key_tuple, location_id),
                           !.locations_rows =
                               Append(@, [location_id |-> location_id,
                                          name |-> loc_detail.name,
                                          latitude |-> loc_detail.latitude,
                                          longitude |-> loc_detail.longitude])]
                    ELSE st
         IN PrepareLocations(locations, j + 1, event_id,
              [st1 EXCEPT !.event_locations_rows =
                  Append(@, [event_id |-> event_id, location_id |-> location_id])])

\* an event built whatever its date is, the date stored as given
RECURSIVE PrepareEventsNoDateCheck(_, _, _)
PrepareEventsNoDateCheck(event_data, i, st) ==
    IF i > Len(event_data) THEN st
    ELSE LET data == event_data[i]
             event_id == generate_uuid(st.order, st.n)
             st1 == [st EXCEPT !.n = @ + 1,
                               !.event_map = Extend(@, data.name, event_id)]
             st2 == [st1 EXCEPT !.events_rows =
                        Append(@, [event_id |-> event_id, name |-> data.name,
                                   event_date |-> 0])]
         IN PrepareEventsNoDateCheck(event_data, i + 1,
                PrepareLocations(data.locations, 1, event_id, st2))

\* an event without a usable date keeps its locations: the date check only
\* guards the Event row
RECURSIVE PrepareEventsKeepLocations(_, _, _)
PrepareEventsKeepLocations(event_data, i, st) ==
    IF i > Len(event_data) THEN st
    ELSE LET data == event_data[i]
             event_id == generate_uuid(st.order, st.n)
             st1 == [st EXCEPT !.n = @ + 1,
                               !.event_map = Extend(@, data.name, event_id)]
             ts_str == data.date
             usable == ts_str # None /\ ts_str # "" /\ isoparse(ts_str).ok
             st2 == IF usable
                    THEN [st1 EXCEPT !.events_rows =
                            Append(@, [event_id |-> event_id, name |-> data.name,
                                       event_date |-> ToUtc(isoparse(ts_str))])]
                    ELSE st1
         IN PrepareEventsKeepLocations(event_data, i + 1,
                PrepareLocations(data.locations, 1, event_id, st2))

\* 2. events
RECURSIVE PrepareEvents(_, _, _)
PrepareEvents(event_data, i, st) ==
    IF i > Len(event_data) THEN st
    ELSE LET data == event_data[i]
             event_id == generate_uuid(st.order, st.n)
             st1 == [st EXCEPT !.n = @ + 1,
                               !.event_map = Extend(@, data.name, event_id)]
             ts_str == data.date
         IN IF ts_str = None \/ ts_str = ""
            THEN PrepareEvents(event_data, i + 1, st1)
            ELSE IF ~isoparse(ts_str).ok
            THEN PrepareEvents(event_data, i + 1, st1)
            ELSE LET st2 == [st1 EXCEPT !.events_rows =
                               Append(@, [event_id |-> event_id, name |-> data.name,
                                          event_date |-> ToUtc(isoparse(ts_str))])]
                 IN PrepareEvents(event_data, i + 1,
                        PrepareLocations(data.locations, 1, event_id, st2))

\* 2. topics: the pages of one topic, numbered by enumerate(pages, start=1)
\* pages numbered from 0: enumerate(pages) without start=1
RECURSIVE PreparePagesFromZero(_, _, _, _)
PreparePagesFromZero(pages, page_no, tid, st) ==
    IF page_no > Len(pages) THEN st
    ELSE PreparePagesFromZero(pages, page_no + 1, tid,
           [st EXCEPT !.n = @ + 1,
                      !.topic_content_rows =
                          Append(@, [topic_id |-> tid,
                                     content_id |-> generate_uuid(st.order, st.n),
                                     page_no |-> page_no - 1,
                                     content_json |-> pages[page_no]])])

RECURSIVE PreparePages(_, _, _, _)
PreparePages(pages, page_no, tid, st) ==
    IF page_no > Len(pages) THEN st
    ELSE PreparePages(pages, page_no + 1, tid,
           [st EXCEPT !.n = @ + 1,
                      !.topic_content_rows =
                          Append(@, [topic_id |-> tid,
                                     content_id |-> generate_uuid(st.order, st.n),
                                     page_no |-> page_no,
                                     content_json |-> pages[page_no]])])

RECURSIVE PrepareTopics(_, _, _)
PrepareTopics(topic_seed, i, st) ==
    IF i > Len(topic_seed) THEN st
    ELSE LET t_info == topic_seed[i]
             tid == generate_uuid(st.order, st.n)
             st1 == [st EXCEPT !.n = @ + 1,
                               !.topic_map = Extend(@, t_info.name, tid),
                               !.topic_rows = Append(@, [topic_id |-> tid,
                                                         name |-> t_info.name])]
         IN PrepareTopics(topic_seed, i + 1, PreparePages(t_info.pages, 1, tid, st1))

\* the pair as given, not sorted
Unsorted2(id1, id2) == <<id1, id2>>

\* 3. friendships: tuple(sorted((id1, id2)))
Sorted2(id1, id2) == IF id1 <= id2 THEN <<id1, id2>> ELSE <<id2, id1>>

\* every resolvable pair of two different people appended, seen before or not
FriendshipStepNoDedup(pair, st) ==
    LET p1_name == pair[1]
        p2_name == pair[2]
    IN IF p1_name \in DOMAIN st.people_map /\ p2_name \in DOMAIN st.people_map
       THEN LET id1 == st.people_map[p1_name]
                id2 == st.people_map[p2_name]
                ab == Sorted2(id1, id2)
            IN IF id1 = id2 THEN st
               ELSE [st EXCEPT !.friendship_rows =
                                   Append(@, [person_id_a |-> ab[1],
                                              person_id_b |-> ab[2]]),
                               !.unique_friendship_pairs = @ \cup {ab}]
       ELSE st

FriendshipStep(pair, st) ==
    LET p1_name == pair[1]
        p2_name == pair[2]
    IN IF p1_name \in DOMAIN st.people_map /\ p2_name \in DOMAIN st.people_map
       THEN LET id1 == st.people_map[p1_name]
                id2 == st.people_map[p2_name]
                ab == Sorted2(id1, id2)
            IN IF id1 = id2 THEN st
               ELSE IF ab \notin st.unique_friendship_pairs
               THEN [st EXCEPT !.friendship_rows =
                                   Append(@, [person_id_a |-> ab[1],
                                              person_id_b |-> ab[2]]),
                               !.unique_friendship_pairs = @ \cup {ab}]
               ELSE st
       ELSE st

RECURSIVE PrepareFriendships(_, _, _)
PrepareFriendships(friendship_data, i, st) ==
    IF i > Len(friendship_data) THEN st
    ELSE PrepareFriendships(friendship_data, i + 1,
                            FriendshipStep(friendship_data[i], st))

\* 4. attendance
AttendanceStep(pair, st) ==
    LET person_name == pair[1]
        event_name == pair[2]
    IN IF person_name \in DOMAIN st.people_map /\ event_name \in DOMAIN st.event_map
       THEN [st EXCEPT !.attendance_rows =
                Append(@, [person_id |-> st.people_map[person_name],
                           event_id |-> st.event_map[event_name]])]
       ELSE st

RECURSIVE PrepareAttendance(_, _, _)
PrepareAttendance(attendance_data, i, st) ==
    IF i > Len(attendance_data) THEN st
    ELSE PrepareAttendance(attendance_data, i + 1,
                           AttendanceStep(attendance_data[i], st))

\* a post of an unknown or missing author kept, with no author id
PostStepKeepAbsent(post_info, st) ==
    LET person_name == post_info.person
        post_id == generate_uuid(st.order, st.n)
        author_id == IF person_name = None \/ person_name \notin DOMAIN st.people_map
                     THEN None ELSE st.people_map[person_name]
        st1 == [st EXCEPT !.n = @ + 1]
    IN IF ~post_info.time_ok
       THEN [st1 EXCEPT !.skipped_posts = @ + 1]
       ELSE LET st2 == [st1 EXCEPT !.posts_rows =
                           Append(@, [post_id |-> post_id,
                                      author_id |-> author_id,
                                      text |-> post_info.text])]
                mentioned_person_name == post_info.mention
            IN IF mentioned_person_name # None
                  /\ mentioned_person_name \in DOMAIN st.people_map
               THEN [st2 EXCEPT !.mention_rows =
                       Append(@, [post_id |-> post_id,
                                  mentioned_person_id |->
                                      st.people_map[mentioned_person_name]])]
               ELSE st2

\* a post whose mention names an unknown person skipped whole
PostStepDropOnBadMention(post_info, st) ==
    LET person_name == post_info.person
    IN IF person_name = None \/ person_name \notin DOMAIN st.people_map
       THEN [st EXCEPT !.skipped_posts = @ + 1]
       ELSE LET post_id == generate_uuid(st.order, st.n)
                author_id == st.people_map[person_name]
                st1 == [st EXCEPT !.n = @ + 1]
                mentioned_person_name == post_info.mention
            IN IF ~post_info.time_ok
                  \/ (mentioned_person_name # None
                      /\ mentioned_person_name \notin DOMAIN st.people_map)
               THEN [st1 EXCEPT !.skipped_posts = @ + 1]
               ELSE LET st2 == [st1 EXCEPT !.posts_rows =
                                   Append(@, [post_id |-> post_id,
                                              author_id |-> author_id,
                                              text |-> post_info.text])]
                    IN IF mentioned_person_name # None
                       THEN [st2 EXCEPT !.mention_rows =
                               Append(@, [post_id |-> post_id,
                                          mentioned_person_id |->
                                              st.people_map[mentioned_person_name]])]
                       ELSE st2

\* a mention appended for an unknown name too, under an id no Person row has
PostStepMentionUnchecked(post_info, st) ==
    LET person_name == post_info.person
    IN IF person_name = None \/ person_name \notin DOMAIN st.people_map
       THEN [st EXCEPT !.skipped_posts = @ + 1]
       ELSE LET post_id == generate_uuid(st.order, st.n)
                author_id == st.people_map[person_name]
                st1 == [st EXCEPT !.n = @ + 1]
            IN IF ~post_info.time_ok
               THEN [st1 EXCEPT !.skipped_posts = @ + 1]
               ELSE LET st2 == [st1 EXCEPT !.posts_rows =
                                   Append(@, [post_id |-> post_id,
                                              author_id |-> author_id,
                                              text |-> post_info.text])]
                        mentioned_person_name == post_info.mention
                    IN IF mentioned_person_name # None
                       THEN [st2 EXCEPT !.mention_rows =
                               Append(@, [post_id |-> post_id,
                                          mentioned_person_id |->
                                              IF mentioned_person_name \in DOMAIN st.people_map
                                              THEN st.people_map[mentioned_person_name]
                                              ELSE generate_uuid(st.order, st.n + 1)])]
                       ELSE st2

\* 5. posts and mentions
PostStep(post_info, st) ==
    LET person_name == post_info.person
    IN IF person_name = None \/ person_name \notin DOMAIN st.people_map
       THEN [st EXCEPT !.skipped_posts = @ + 1]
       ELSE LET post_id == generate_uuid(st.order, st.n)
                author_id == st.people_map[person_name]
                st1 == [st EXCEPT !.n = @ + 1]
            IN IF ~post_info.time_ok
               THEN [st1 EXCEPT !.skipped_posts = @ + 1]
               ELSE LET st2 == [st1 EXCEPT !.posts_rows =
                                   Append(@, [post_id |-> post_id,
                                              author_id |-> author_id,
                                              text |-> post_info.text])]
                        mentioned_person_name == post_info.mention
                    IN IF mentioned_person_name # None
                          /\ mentioned_person_name \in DOMAIN st.people_map
                       THEN [st2 EXCEPT !.mention_rows =
                               Append(@, [post_id |-> post_id,
                                          mentioned_person_id |->
                                              st.people_map[mentioned_person_name]])]
                       ELSE st2

RECURSIVE PreparePosts(_, _, _)
PreparePosts(posts_data, i, st) ==
    IF i > Len(posts_data) THEN st
    ELSE PreparePosts(posts_data, i + 1, PostStep(posts_data[i], st))

\* steps 1 to 5 of insert_relational_data, in the order of the source
PrepareRows(sd, n, order) ==
    LET s1 == PreparePeople(sd.people_data, 1, EmptyLocals(n, order))
        s2 == PrepareEvents(sd.event_data, 1, s1)
        s3 == PrepareTopics(sd.topic_seed, 1, s2)
        s4 == PrepareFriendships(sd.friendship_data, 1, s3)
        s5 == PrepareAttendance(sd.attendance_data, 1, s4)
    IN PreparePosts(sd.posts_data, 1, s5)

\* the plan with the linking tables ahead of the tables they refer to
table_map_children_first(st) ==
    << [table |-> "Mention", rows |-> st.mention_rows],
       [table |-> "EventLocation", rows |-> st.event_locations_rows],
       [table |-> "TopicContent", rows |-> st.topic_content_rows],
       [table |-> "Attendance", rows |-> st.attendance_rows],
       [table |-> "Friendship", rows |-> st.friendship_rows],
       [table |-> "Post", rows |-> st.posts_rows],
       [table |-> "Topic", rows |-> st.topic_rows],
       [table |-> "Location", rows |-> st.locations_rows],
       [table |-> "Event", rows |-> st.events_rows],
       [table |-> "Person", rows |-> st.people_rows] >>

\* insert called for every table, with or without rows
HasRowsAlways(e) == TRUE

(***************************************************************************)
(* insert_data_txn: the insert plan, one entry per table in the order of   *)
(* table_map; transaction.insert is called for the non-empty lists only.   *)
(***************************************************************************)
table_map(st) ==
    << [table |-> "Person", rows |-> st.people_rows],
       [table |-> "Event", rows |-> st.events_rows],
       [table |-> "Location", rows |-> st.locations_rows],
       [table |-> "Topic", rows |-> st.topic_rows],
       [table |-> "TopicContent", rows |-> st.topic_content_rows],
       [table |-> "Post", rows |-> st.posts_rows],
       [table |-> "Friendship", rows |-> st.friendship_rows],
       [table |-> "Attendance", rows |-> st.attendance_rows],
       [table |-> "Mention", rows |-> st.mention_rows],
       [table |-> "EventLocation", rows |-> st.event_locations_rows] >>

HasRows(e) == Len(e.rows) > 0

insert_data_txn(st) == SelectSeq(table_map(st), HasRows)

(***************************************************************************)
(* The database's side of a read-write transaction: the primary keys, the  *)
(* two foreign keys of EventLocation and the interleaving of TopicContent  *)
(* in Topic are the constraints the schema declares.                       *)
(***************************************************************************)
PrimaryKey(table, row) ==
    CASE table = "Person" -> <<row.person_id>>
      [] table = "Event" -> <<row.event_id>>
      [] table = "Location" -> <<row.location_id>>
      [] table = "Topic" -> <<row.topic_id>>
      [] table = "TopicContent" -> <<row.topic_id, row.content_id>>
      [] table = "Post" -> <<row.post_id>>
      [] table = "Friendship" -> <<row.person_id_a, row.person_id_b>>
      [] table = "Attendance" -> <<row.person_id, row.event_id>>
      [] table = "Mention" -> <<row.post_id, row.mentioned_person_id>>
      [] OTHER -> <<row.event_id, row.location_id>>

Range(seq) == {seq[i] : i \in 1..Len(seq)}

Keys(table, rows) == {PrimaryKey(table, r) : r \in rows}

NoTables == [t \in TableNames |-> {}]

\* the table contents once every insert of the plan is applied
Applied(tabs, plan) ==
    [t \in TableNames |->
        tabs[t] \cup UNION {Range(plan[i].rows) : i \in {j \in 1..Len(plan) : plan[j].table = t}}]

KeyClash(tabs, plan) ==
    \E i \in 1..Len(plan) :
        LET t == plan[i].table
            rows == plan[i].rows
        IN \/ \E a, b \in 1..Len(rows) :
                 a < b /\ PrimaryKey(t, rows[a]) = PrimaryKey(t, rows[b])
           \/ Keys(t, Range(rows)) \cap Keys(t, tabs[t]) # {}

ReferencesHold(tabs) ==
    /\ \A r \in tabs["EventLocation"] :
          /\ <<r.event_id>> \in Keys("Event", tabs["Event"])
          /\ <<r.location_id>> \in Keys("Location", tabs["Location"])
    /\ \A r \in tabs["TopicContent"] :
          <<r.topic_id>> \in Keys("Topic", tabs["Topic"])

TxnSignals == {"ok", "Aborted", "Unexpected"}

\* every insert committed on its own: an abort leaves the first table's rows
run_in_transaction_per_table(plan, sch, tabs, outcome) ==
    IF \E i \in 1..Len(plan) : plan[i].table \notin sch
    THEN [tables |-> tabs, signal |-> "NotFound"]
    ELSE IF outcome # "ok"
    THEN [tables |-> Applied(tabs, SubSeq(plan, 1, 1)), signal |-> outcome]
    ELSE IF KeyClash(tabs, plan)
    THEN [tables |-> tabs, signal |-> "AlreadyExists"]
    ELSE IF ~ReferencesHold(Applied(tabs, plan))
    THEN [tables |-> tabs, signal |-> "FailedPrecondition"]
    ELSE [tables |-> Applied(tabs, plan), signal |-> "ok"]

\* database.run_in_transaction(insert_data_txn): all of the plan or nothing
run_in_transaction(plan, sch, tabs, outcome) ==
    IF \E i \in 1..Len(plan) : plan[i].table \notin sch
    THEN [tables |-> tabs, signal |-> "NotFound"]
    ELSE IF outcome # "ok"
    THEN [tables |-> tabs, signal |-> outcome]
    ELSE IF KeyClash(tabs, plan)
    THEN [tables |-> tabs, signal |-> "AlreadyExists"]
    ELSE IF ~ReferencesHold(Applied(tabs, plan))
    THEN [tables |-> tabs, signal |-> "FailedPrecondition"]
    ELSE [tables |-> Applied(tabs, plan), signal |-> "ok"]

(***************************************************************************)
(* insert_relational_data                                                  *)
(***************************************************************************)
\* a contention abort reported as a successful load
TxnReturnAbortOk(signal) == signal \in {"ok", "Aborted"}

\* lines 666-684: True after the commit, False for Aborted and any other error
TxnReturn(signal) == signal = "ok"

all_data_lists(st) ==
    << st.people_rows, st.events_rows, st.locations_rows, st.posts_rows,
       st.friendship_rows, st.attendance_rows, st.mention_rows,
       st.event_locations_rows, st.topic_rows, st.topic_content_rows >>

insert_relational_data(db_instance, sd, n, order, sch, tabs, outcome) ==
    IF db_instance = None
    THEN [ret |-> FALSE, tables |-> tabs, locals |-> EmptyLocals(n, order),
          signal |-> "none", calls |-> 0, inserts |-> <<>>]
    ELSE LET st == PrepareRows(sd, n, order)
             lists == all_data_lists(st)
         IN IF \E i \in 1..Len(lists) : Len(lists[i]) > 0
            THEN LET plan == insert_data_txn(st)
                     r == run_in_transaction(plan, sch, tabs, outcome)
                 IN [ret |-> TxnReturn(r.signal), tables |-> r.tables, locals |-> st,
                     signal |-> r.signal, calls |-> 1,
                     inserts |-> [i \in 1..Len(plan) |-> plan[i].table]]
            ELSE [ret |-> TRUE, tables |-> tabs, locals |-> st,
                  signal |-> "none", calls |-> 0, inserts |-> <<>>]

(***************************************************************************)
(* The seed input.  DefaultSeed is the fixture of the source cut down to   *)
(* three people, two events, two topics and three posts, one of which      *)
(* mentions a name ("Grace") that is no person of the fixture.             *)
(***************************************************************************)
Hall1 == [name |-> "Hall", latitude |-> 37, longitude |-> 122]
Hall2 == [name |-> "Hall", latitude |-> 37, longitude |-> 74]
LocDetails == {Hall1, Hall2}

Post(person, mention, time_ok) ==
    [person |-> person, mention |-> mention, time_ok |-> time_ok, text |-> "text"]

DefaultSeed ==
    [people_data |-> <<"Alice", "Bob", "Charlie">>,
     event_data |-> << [name |-> "E1", date |-> DateAware, locations |-> <<Hall1>>],
                       [name |-> "E2", date |-> DateAware, locations |-> <<Hall2>>] >>,
     topic_seed |-> << [name |-> "T1", pages |-> <<"p", "q">>],
                       [name |-> "T2", pages |-> <<"p", "q">>] >>,
     friendship_data |-> << <<"Alice", "Bob">>, <<"Alice", "Charlie">>,
                            <<"Bob", "Charlie">> >>,
     attendance_data |-> << <<"Alice", "E1">>, <<"Bob", "E1">>, <<"Charlie", "E2">> >>,
     posts_data |-> << Post("Alice", None, TRUE), Post("Alice", "Bob", TRUE),
                       Post("Alice", "Grace", TRUE) >>]

SeqsUpTo(S, n) == UNION {[1..k -> S] : k \in 0..n}

FriendNames == {"Alice", "Bob", "Zed"}

\* two people and friendship lists over their names and an unknown one
FriendSeeds ==
    {[people_data |-> <<"Alice", "Bob">>, event_data |-> <<>>, topic_seed |-> <<>>,
      friendship_data |-> f, attendance_data |-> <<>>, posts_data |-> <<>>] :
        f \in SeqsUpTo(FriendNames \X FriendNames, MaxFriend)}

EventSeeds ==
    {[DefaultSeed EXCEPT !.event_data =
         << [name |-> "E1", date |-> d1, locations |-> l1],
            [name |-> "E2", date |-> d2, locations |-> l2] >>] :
        d1 \in DateStrings, d2 \in DateStrings,
        l1 \in SeqsUpTo(LocDetails, MaxLocs), l2 \in SeqsUpTo(LocDetails, MaxLocs)}

AttendSeeds ==
    {[DefaultSeed EXCEPT !.event_data =
         << [name |-> "E1", date |-> d1, locations |-> <<Hall1>>],
            [name |-> "E2", date |-> d2, locations |-> <<Hall2>>] >>,
                         !.attendance_data = a] :
        d1 \in DateStrings, d2 \in DateStrings,
        a \in SeqsUpTo({"Alice", "Zed"} \X {"E1", "E2", "E9"}, MaxAttend)}

PostSeeds ==
    {[DefaultSeed EXCEPT !.posts_data = p] :
        p \in SeqsUpTo({Post(a, m, t) : a \in {"Alice", "Zed", None},
                                        m \in {None, "Bob", "Zed"},
                                        t \in BOOLEAN}, MaxPosts)}

\* inputs from which no row is built: every list empty, or nothing but an
\* event without a date, a friendship of unknown people, an attendance and a
\* post of an unknown person
EmptySeeds ==
    {[people_data |-> <<>>, event_data |-> e, topic_seed |-> <<>>,
      friendship_data |-> f, attendance_data |-> a, posts_data |-> p] :
        e \in {<<>>, << [name |-> "E1", date |-> None, locations |-> <<Hall1>>] >>},
        f \in {<<>>, << <<"Alice", "Bob">> >>},
        a \in {<<>>, << <<"Alice", "E1">> >>},
        p \in {<<>>, << Post("Alice", None, TRUE) >>}}

Pages == SeqsUpTo({"p", "q"}, MaxPages)

TopicSeeds ==
    {[DefaultSeed EXCEPT !.topic_seed = t] :
        t \in {<<>>}
              \cup {<< [name |-> "T1", pages |-> p1] >> : p1 \in Pages}
              \cup {<< [name |-> "T1", pages |-> p1],
                       [name |-> "T2", pages |-> p2] >> : p1 \in Pages, p2 \in Pages}}

(***************************************************************************)
(* State.  The database: schema, tables.  The process running the script:  *)
(* database (the module-level handle), pc, locals (the locals of the last  *)
(* insert_relational_data call).  uuid_count counts the uuids generated so *)
(* far.  seed and uuid_order are the inputs.  log, db_ops and schema0      *)
(* record, for the current run, the steps taken with what each returned,   *)
(* the number of requests sent to the database, and the schema the run     *)
(* found.                                                                  *)
(***************************************************************************)
VARIABLES schema, tables, uuid_count, uuid_order, seed,
          database, pc, locals, log, db_ops, schema0, runs,
          tables0, prev,
          db, wpc, home_locals, page, last_query

\* the state of the setup script and of the database it provisions
setupvars == <<schema, tables, uuid_count, uuid_order, seed,
               database, pc, locals, log, db_ops, schema0, runs, tables0, prev>>

\* the state of the web application: its database handle, the position of the
\* request being served, the locals of home, the last response and the result
\* of the last direct call of run_query
webvars == <<db, wpc, home_locals, page, last_query>>

vars == <<setupvars, webvars>>

NoHome == [all_posts |-> <<>>, all_events_attendance |-> <<>>, topics |-> <<>>,
           topics_bound |-> FALSE, flashed |-> <<>>, failures |-> {}]

NoPage == [status |-> 0]

NoQuery == [sql |-> "none"]

\* the web application is not part of a run of the setup script
WebOff ==
    /\ db = None
    /\ wpc = "off"
    /\ home_locals = NoHome
    /\ page = NoPage
    /\ last_query = NoQuery

DdlEntry(op, r) ==
    [op |-> op, ret |-> r.ret, signal |-> r.signal, cause |-> r.cause,
     stmt |-> r.stmt]

\* every id of the rows a call prepared
AllIds(st) ==
    {r.person_id : r \in Range(st.people_rows)}
    \cup {r.event_id : r \in Range(st.events_rows)}
    \cup {r.location_id : r \in Range(st.locations_rows)}
    \cup {r.topic_id : r \in Range(st.topic_rows)}
    \cup {r.content_id : r \in Range(st.topic_content_rows)}
    \cup {r.post_id : r \in Range(st.posts_rows)}

\* what the run before the current one left: the result of its load (none
\* when it did not get there), the table contents it started from and the ids
\* of the rows it prepared
NoPrev == [signal |-> "none", tables0 |-> NoTables, ids |-> {}]

SeedSignal(l) == IF Len(l) = 3 THEN l[3].signal ELSE "none"

Init ==
    /\ schema = {}
    /\ tables = NoTables
    /\ uuid_count = 0
    /\ uuid_order \in UuidOrders
    /\ seed = DefaultSeed
    /\ database = None
    /\ pc = "load"
    /\ locals = EmptyLocals(0, uuid_order)
    /\ log = <<>>
    /\ db_ops = 0
    /\ schema0 = {}
    /\ runs = 1
    /\ tables0 = NoTables
    /\ prev = NoPrev
    /\ WebOff

\* lines 17-32: the module-level client initialisation
ClientInit ==
    /\ pc = "load"
    /\ \E d \in {None, DB} : database' = d
    /\ pc' = "main"
    /\ UNCHANGED <<schema, tables, uuid_count, uuid_order, seed, locals, log,
                   db_ops, schema0, runs, tables0, prev, webvars>>

\* the check of the handle left out
AfterGuardUnchecked(d) == "step1"

\* lines 692-694
AfterGuard(d) == IF d = None THEN "exit1" ELSE "step1"

MainGuard ==
    /\ pc = "main"
    /\ pc' = AfterGuard(database)
    /\ UNCHANGED <<schema, tables, uuid_count, uuid_order, seed, database,
                   locals, log, db_ops, schema0, runs, tables0, prev, webvars>>

\* the step's result ignored
AfterStepAlways(ret, next) == next

\* "if not step(database): exit(1)"
AfterStep(ret, next) == IF ret THEN next ELSE "exit1"

\* lines 698-700
Step1 ==
    /\ pc = "step1"
    /\ \E r \in {setup_base_schema_and_indexes(database, schema, env) :
                    env \in DdlEnv(BaseDDL)} :
           /\ schema' = r.schema
           /\ log' = Append(log, DdlEntry("base", r))
           /\ db_ops' = db_ops + r.calls
           /\ pc' = AfterStep(r.ret, "step2")
    /\ UNCHANGED <<tables, uuid_count, uuid_order, seed, database, locals,
                   schema0, runs, tables0, prev, webvars>>

\* lines 704-706
Step2 ==
    /\ pc = "step2"
    /\ \E r \in {setup_graph_definition(database, schema, env) :
                    env \in DdlEnv(GraphDDL)} :
           /\ schema' = r.schema
           /\ log' = Append(log, DdlEntry("graph", r))
           /\ db_ops' = db_ops + r.calls
           /\ pc' = AfterStep(r.ret, "step3")
    /\ UNCHANGED <<tables, uuid_count, uuid_order, seed, database, locals,
                   schema0, runs, tables0, prev, webvars>>

\* lines 709-711
Step3 ==
    /\ pc = "step3"
    /\ \E r \in {insert_relational_data(database, seed, uuid_count, uuid_order,
                                           schema, tables, outcome) :
                    outcome \in TxnSignals} :
           /\ tables' = r.tables
           /\ locals' = r.locals
           /\ uuid_count' = r.locals.n
           /\ log' = Append(log, [op |-> "seed", ret |-> r.ret, signal |-> r.signal,
                                  cause |-> "none", stmt |-> 0,
                                  inserts |-> r.inserts])
           /\ db_ops' = db_ops + r.calls
           /\ pc' = AfterStep(r.ret, "done")
    /\ UNCHANGED <<schema, uuid_order, seed, database, schema0, runs, tables0, prev, webvars>>

\* the operator runs the script again, against the same database
Rerun ==
    /\ pc \in {"done", "exit1"}
    /\ runs < MaxRuns
    /\ runs' = runs + 1
    /\ pc' = "load"
    /\ database' = None
    /\ locals' = EmptyLocals(uuid_count, uuid_order)
    /\ log' = <<>>
    /\ db_ops' = 0
    /\ schema0' = schema
    /\ tables0' = tables
    /\ prev' = [signal |-> SeedSignal(log), tables0 |-> tables0, ids |-> AllIds(locals)]
    /\ UNCHANGED <<schema, tables, uuid_count, uuid_order, seed, webvars>>

Next == ClientInit \/ MainGuard \/ Step1 \/ Step2 \/ Step3 \/ Rerun

Spec == Init /\ [][Next]_vars

(***************************************************************************)
(* The Seed Loader on its own: step 3 of a run whose schema steps both     *)
(* succeeded on an empty database, for every seed input of the bounds.     *)
(***************************************************************************)
\* the inputs of a load: a seed and the order of the uuids it will draw
SeedInput(sd, o) ==
    \/ sd \in FriendSeeds /\ o \in UuidOrders
    \/ sd \in EventSeeds /\ o = "mixed"
    \/ sd \in AttendSeeds /\ o = "mixed"
    \/ sd \in PostSeeds /\ o = "mixed"
    \/ sd \in TopicSeeds /\ o = "mixed"
    \/ sd \in EmptySeeds /\ o = "mixed"

OkEntry(op) == [op |-> op, ret |-> TRUE, signal |-> "ok", cause |-> "none", stmt |-> 0]

InitSeed ==
    /\ schema = AllObjects
    /\ tables = NoTables
    /\ uuid_count = 0
    /\ SeedInput(seed, uuid_order)
    /\ database = DB
    /\ pc = "step3"
    /\ locals = EmptyLocals(0, uuid_order)
    /\ log = <<OkEntry("base"), OkEntry("graph")>>
    /\ db_ops = 2
    /\ schema0 = {}
    /\ runs = 1
    /\ tables0 = NoTables
    /\ prev = NoPrev
    /\ WebOff

NextSeed == Step3

SeedSpec == InitSeed /\ [][NextSeed]_vars

(***************************************************************************)
(* The web application (app.py): run_query, the functions that fetch the   *)
(* posts, the events with their attendees and the topics, and the home     *)
(* page.  The database is the environment: a query either raises one of    *)
(* the signals below or yields rows.                                        *)
(***************************************************************************)
MaxRows == 1          \* rows a query yields

Ids == {"id1", "id2"}

Queries == {"posts", "topics", "events", "attendees"}

\* the columns of each SELECT, in order
Fields(sql) ==
    CASE sql = "posts" -> <<"post_id", "author_id", "text", "sentiment",
                            "post_timestamp", "author_name">>
      [] sql = "topics" -> <<"topic_id", "name", "description", "create_time">>
      [] sql = "events" -> <<"event_id", "name", "event_date">>
      [] OTHER -> <<"event_id", "person_id", "name">>

\* a row of a result: the list of its values, the first column an id
Row(sql, id) == [i \in 1..Len(Fields(sql)) |-> IF i = 1 THEN id ELSE Fields(sql)[i]]

ResultSets(sql) == SeqsUpTo({Row(sql, id) : id \in Ids}, MaxRows)

SpannerErrors == {"NotFound", "PermissionDenied", "InvalidArgument"}

OtherErrors == {"DeadlineExceeded", "Unexpected"}

QuerySignals == {"ok", "ValueError"} \cup SpannerErrors \cup OtherErrors

\* what snapshot.execute_sql does: it raises, or yields rows; has_fields tells
\* whether the result object offers the fields attribute
QueryEnv(sql, attrs) ==
    {[signal |-> "ok", rows |-> r, has_fields |-> h] : r \in ResultSets(sql), h \in attrs}
    \cup {[signal |-> s, rows |-> <<>>, has_fields |-> TRUE] : s \in QuerySignals \ {"ok"}}

Flash(message) == [category |-> "danger", message |-> message]

Position(seq, k) == CHOOSE i \in 1..Len(seq) : seq[i] = k

\* dict(zip(field_names, row))
dict_zip(field_names, row) ==
    [k \in Range(field_names) |-> row[Position(field_names, k)]]

\* lines 156-164: rows whose length differs from the field names are skipped
results_list(field_names, rows) ==
    LET Fits(row) == Len(row) = Len(field_names)
        good == SelectSeq(rows, Fits)
    IN [i \in 1..Len(good) |-> dict_zip(field_names, good[i])]

\* every error answered with a flash and an empty list
CaughtAll(signal) == TRUE

\* lines 168-175: the errors run_query answers with a flash and an empty list
Caught(signal) == signal \in SpannerErrors \cup {"ValueError"}

\* lines 102-182.  failed names the query when it met an error.
run_query(sql, expected_fields, db_handle, env) ==
    IF db_handle = None
    THEN [raised |-> "ConnectionError", ret |-> <<>>, flashed |-> <<>>, failed |-> {sql}]
    ELSE LET signal == IF env.signal = "ok" /\ expected_fields = <<>> /\ ~env.has_fields
                       THEN "ValueError" ELSE env.signal
             field_names == IF expected_fields = <<>> THEN Fields(sql) ELSE expected_fields
         IN IF signal = "ok"
            THEN [raised |-> None, ret |-> results_list(field_names, env.rows),
                  flashed |-> <<>>, failed |-> {}]
            ELSE IF Caught(signal)
            THEN [raised |-> None, ret |-> <<>>, failed |-> {sql},
                  flashed |-> <<Flash(IF signal = "ValueError"
                                      THEN "Internal error processing query results."
                                      ELSE "Database error")>>]
            ELSE [raised |-> signal, ret |-> <<>>, failed |-> {sql},
                  flashed |-> <<Flash("An unexpected server error occurred while fetching data.")>>]

\* lines 186-198
get_all_posts_with_author_db(db_handle, env) ==
    run_query("posts", Fields("posts"), db_handle, env)

\* lines 201-214
get_all_topics(db_handle, env) ==
    run_query("topics", Fields("topics"), db_handle, env)

\* lines 216-254
get_all_events_with_attendees_db(db_handle, env1, env2) ==
    LET r1 == run_query("events", Fields("events"), db_handle, env1)
    IN IF r1.raised # None \/ r1.ret = <<>>
       THEN r1
       ELSE LET r2 == run_query("attendees", Fields("attendees"), db_handle, env2)
                events == r1.ret
                Last(id) == CHOOSE j \in 1..Len(events) :
                               /\ events[j]["event_id"] = id
                               /\ \A k \in 1..Len(events) :
                                     events[k]["event_id"] = id => k <= j
                Attendees(id) ==
                    LET OfEvent(a) == a["event_id"] = id IN SelectSeq(r2.ret, OfEvent)
            IN [raised |-> r2.raised,
                flashed |-> r1.flashed \o r2.flashed,
                failed |-> r1.failed \cup r2.failed,
                ret |-> IF r2.raised # None THEN <<>>
                        ELSE [i \in 1..Len(events) |->
                                [details |-> events[Last(events[i]["event_id"])],
                                 attendees |-> Attendees(events[i]["event_id"])]]]

\* lines 271-275: the except clause of home
HomeExcept(h, r) ==
    [h EXCEPT !.flashed = @ \o r.flashed \o <<Flash("Failed to load page data")>>,
              !.failures = @ \cup r.failed,
              !.all_posts = <<>>,
              !.all_events_attendance = <<>>]

InitWeb ==
    /\ schema = AllObjects
    /\ tables = NoTables
    /\ uuid_count = 0
    /\ uuid_order = "asc"
    /\ seed = DefaultSeed
    /\ database = None
    /\ pc = "done"
    /\ locals = EmptyLocals(0, "asc")
    /\ log = <<>>
    /\ db_ops = 0
    /\ schema0 = {}
    /\ runs = 1
    /\ tables0 = NoTables
    /\ prev = NoPrev
    /\ db = None
    /\ wpc = "load"
    /\ home_locals = NoHome
    /\ page = NoPage
    /\ last_query = NoQuery

\* lines 27-50: the module-level client initialisation of app.py
AppInit ==
    /\ wpc = "load"
    /\ \E d \in {None, DB} : db' = d
    /\ wpc' = "idle"
    /\ UNCHANGED <<home_locals, page, last_query, setupvars>>

\* lines 258-264: a request for the home page arrives
HomeBegin ==
    /\ wpc = "idle"
    /\ page' = NoPage
    /\ last_query' = NoQuery
    /\ IF db = None
       THEN /\ home_locals' =
                 [NoHome EXCEPT
                    !.flashed = <<Flash("Database connection not available. Cannot load page data.")>>,
                    !.failures = {"db"}]
            /\ wpc' = "render"
       ELSE /\ home_locals' = NoHome
            /\ wpc' = "posts"
    /\ UNCHANGED <<db, setupvars>>

\* line 268
HomePosts ==
    /\ wpc = "posts"
    /\ \E r \in {get_all_posts_with_author_db(db, env) : env \in QueryEnv("posts", {TRUE})} :
          IF r.raised # None
          THEN /\ home_locals' = HomeExcept(home_locals, r)
               /\ wpc' = "render"
          ELSE /\ home_locals' = [home_locals EXCEPT !.all_posts = r.ret,
                                                     !.flashed = @ \o r.flashed,
                                                     !.failures = @ \cup r.failed]
               /\ wpc' = "events"
    /\ UNCHANGED <<db, page, last_query, setupvars>>

\* line 269
HomeEvents ==
    /\ wpc = "events"
    /\ \E r \in {get_all_events_with_attendees_db(db, env1, env2) :
                    env1 \in QueryEnv("events", {TRUE}),
                    env2 \in QueryEnv("attendees", {TRUE})} :
          IF r.raised # None
          THEN /\ home_locals' = HomeExcept(home_locals, r)
               /\ wpc' = "render"
          ELSE /\ home_locals' = [home_locals EXCEPT !.all_events_attendance = r.ret,
                                                     !.flashed = @ \o r.flashed,
                                                     !.failures = @ \cup r.failed]
               /\ wpc' = "topics"
    /\ UNCHANGED <<db, page, last_query, setupvars>>

\* line 270
HomeTopics ==
    /\ wpc = "topics"
    /\ \E r \in {get_all_topics(db, env) : env \in QueryEnv("topics", {TRUE})} :
          IF r.raised # None
          THEN home_locals' = HomeExcept(home_locals, r)
          ELSE home_locals' = [home_locals EXCEPT !.topics = r.ret,
                                                  !.topics_bound = TRUE,
                                                  !.flashed = @ \o r.flashed,
                                                  !.failures = @ \cup r.failed]
    /\ wpc' = "render"
    /\ UNCHANGED <<db, page, last_query, setupvars>>

\* lines 276-281: render_template reads topics, which is a local of home bound
\* at line 270 only
HomeRender ==
    /\ wpc = "render"
    /\ page' = IF home_locals.topics_bound
               THEN [status |-> 200,
                     posts |-> home_locals.all_posts,
                     all_events_attendance |-> home_locals.all_events_attendance,
                     topics |-> home_locals.topics,
                     flashed |-> home_locals.flashed,
                     failures |-> home_locals.failures]
               ELSE [status |-> 500, error |-> "UnboundLocalError",
                     flashed |-> home_locals.flashed,
                     failures |-> home_locals.failures]
    /\ home_locals' = NoHome
    /\ wpc' = "idle"
    /\ UNCHANGED <<db, last_query, setupvars>>

\* a call of run_query on its own, with or without expected_fields
RunQuery ==
    /\ wpc = "idle"
    /\ \E sql \in Queries :
       \E expected_fields \in {<<>>, Fields(sql), Tail(Fields(sql))} :
       \E env \in QueryEnv(sql, BOOLEAN) :
       \E r \in {run_query(sql, expected_fields, db, env)} :
          last_query' = [sql |-> sql, expected_fields |-> expected_fields, env |-> env,
                         raised |-> r.raised, ret |-> r.ret, flashed |-> r.flashed]
    /\ page' = NoPage
    /\ UNCHANGED <<db, wpc, home_locals, setupvars>>

WebNext ==
    AppInit \/ HomeBegin \/ HomePosts \/ HomeEvents \/ HomeTopics \/ HomeRender \/ RunQuery

WebSpec == InitWeb /\ [][WebNext]_vars

(***************************************************************************)
(* Properties of the Seed Loader's rows, checked under SeedSpec.           *)
(***************************************************************************)
Loaded == Len(log) = 3 /\ log[3].op = "seed"

KnownPeople == Range(seed.people_data)

\* The unordered pairs of two different known people the source list names.
NamedPairs ==
    {{pair[1], pair[2]} : pair \in
        {q \in Range(seed.friendship_data) :
            q[1] \in KnownPeople /\ q[2] \in KnownPeople /\ q[1] # q[2]}}

FriendPair(row) == {row.person_id_a, row.person_id_b}

\* C1: every Friendship row built has person_id_a < person_id_b, strictly (so
\* a self-pair of the source list yields no row), and no two Friendship rows
\* hold the same unordered pair of people.
C1_FriendshipCanonical ==
    LET rows == locals.friendship_rows IN
    /\ \A i \in 1..Len(rows) : rows[i].person_id_a < rows[i].person_id_b
    /\ \A i, j \in 1..Len(rows) : i # j => FriendPair(rows[i]) # FriendPair(rows[j])

C1_Witness ==
    /\ Loaded
    /\ uuid_order = "desc"
    /\ seed.friendship_data = << <<"Bob", "Bob">>, <<"Alice", "Bob">> >>
    /\ Len(locals.friendship_rows) = 1
    /\ locals.friendship_rows[1].person_id_a = locals.people_map["Bob"]

\* C2: the Friendship rows built are exactly the distinct unordered pairs
\* {p, q}, p # q, of known people named in the source friendship list, one row
\* per pair: an unknown name, a self-pair, a repeated or a reversed pair adds
\* no row.
C2_FriendshipRowsExact ==
    Loaded =>
        LET rows == locals.friendship_rows IN
        /\ {FriendPair(rows[i]) : i \in 1..Len(rows)}
             = {{locals.people_map[n] : n \in np} : np \in NamedPairs}
        /\ Len(rows) = Cardinality(NamedPairs)

C2_Witness ==
    /\ Loaded
    /\ seed.people_data = <<"Alice", "Bob">>
    /\ seed.friendship_data
         = << <<"Alice", "Bob">>, <<"Bob", "Alice">>, <<"Alice", "Alice">> >>
    /\ Len(locals.friendship_rows) = 1

\* The TopicContent rows of one topic, in the order they were built.
ContentOf(tid) ==
    LET OfTopic(r) == r.topic_id = tid IN SelectSeq(locals.topic_content_rows, OfTopic)

\* C3: for every Topic built, the page_no values of its TopicContent rows are
\* exactly 1..N, N the number of pages of the topic in the source, the k-th
\* page of the source list carrying page_no k.
C3_PageNumbers ==
    Loaded =>
        /\ Len(locals.topic_rows) = Len(seed.topic_seed)
        /\ \A i \in 1..Len(seed.topic_seed) :
              LET pages == seed.topic_seed[i].pages
                  rows == ContentOf(locals.topic_rows[i].topic_id)
              IN /\ Len(rows) = Len(pages)
                 /\ \A k \in 1..Len(rows) :
                       rows[k].page_no = k /\ rows[k].content_json = pages[k]

C3_Witness ==
    /\ Loaded
    /\ seed.topic_seed = << [name |-> "T1", pages |-> <<"p", "q">>],
                            [name |-> "T2", pages |-> <<"q">>] >>
    /\ Len(locals.topic_content_rows) = 3
    /\ locals.topic_content_rows[3].page_no = 1

\* C4: every EventLocation row of a batch names an Event row and a Location
\* row of the same batch, whatever the seed input, events skipped for a
\* missing or malformed date included.
C4_EventLocationRefs ==
    \A r \in Range(locals.event_locations_rows) :
        /\ \E e \in Range(locals.events_rows) : e.event_id = r.event_id
        /\ \E l \in Range(locals.locations_rows) : l.location_id = r.location_id

C4_Witness ==
    /\ Loaded
    /\ Len(seed.event_data) = 2
    /\ seed.event_data[1].date = "not-a-date"
    /\ seed.event_data[1].locations = <<Hall1, Hall2>>
    /\ seed.event_data[2].locations = <<Hall1>>
    /\ Len(locals.events_rows) = 1
    /\ Len(locals.event_locations_rows) = 1

(***************************************************************************)
(* Properties of the script's runs, checked under Spec.                    *)
(***************************************************************************)
Entries == Range(log)

DdlEntries == {e \in Entries : e.op \in {"base", "graph"}}

\* C5: a run of the Schema Manager against a database already provisioned
\* (every table, index and the graph exist when the run starts) reports
\* success at both steps, unless the service itself fails, and leaves the set
\* of schema objects as it was.
C5_RerunIdempotent ==
    schema0 = AllObjects =>
        /\ schema = AllObjects
        /\ \A e \in DdlEntries : e.cause # "fault" => e.ret

C5_Witness ==
    /\ runs = 2
    /\ schema0 = AllObjects
    /\ Len(log) >= 2
    /\ log[1].op = "base" /\ log[1].ret
    /\ log[2].op = "graph" /\ log[2].ret

\* C6: every schema statement is safe to re-issue: no schema step is ever
\* stopped by the database because the object a statement creates exists
\* already.
C6_StatementsReissuable ==
    \A e \in DdlEntries : e.cause # "duplicate"

\* C7: a schema-change step returns failure when the database signals
\* invalid-argument, deadline-exceeded or any other unexpected error, success
\* when it signals already-exists or failed-precondition, and success when it
\* signals nothing.
C7_DdlOutcomeMapping ==
    \A e \in DdlEntries :
        /\ e.signal \in {"InvalidArgument", "DeadlineExceeded", "Unexpected"} => ~e.ret
        /\ e.signal \in {"AlreadyExists", "FailedPrecondition"} => e.ret
        /\ e.signal = "ok" => e.ret
        /\ e.signal \in ErrorSignals \cup {"ok"}

C7_Witness ==
    \E e \in DdlEntries : e.signal = "InvalidArgument" /\ ~e.ret

StepOrder == <<"base", "graph", "seed">>

\* C8: in every run the steps happen in the order base schema, graph
\* definition, Seed Loader, each at most once, and a step is taken only after
\* every step before it reported success.
C8_StepOrder ==
    /\ Len(log) <= 3
    /\ \A i \in 1..Len(log) : log[i].op = StepOrder[i]
    /\ \A i \in 1..Len(log) : i < Len(log) => log[i].ret
    /\ pc = "step1" => Len(log) = 0
    /\ pc = "step2" => Len(log) = 1
    /\ pc = "step3" => Len(log) = 2
    /\ pc = "done" => Len(log) = 3

C8_Witness ==
    pc = "done" /\ Len(log) = 3 /\ log[3].op = "seed" /\ log[2].ret

\* C9: when a step reports failure the process exits with a failure status
\* and no later step is attempted, and no schema object is ever removed: what
\* earlier steps created stays in the database.
C9_FailureHalts ==
    /\ [](\A i \in 1..Len(log) : ~log[i].ret => i = Len(log) /\ pc = "exit1")
    /\ [][schema \subseteq schema']_vars

C9_Witness ==
    /\ pc = "exit1"
    /\ Len(log) = 2
    /\ ~log[2].ret
    /\ Names(BaseDDL) \subseteq schema
    /\ tables = NoTables

\* C10: with no database handle the process aborts with failure before any
\* request is sent to the database, and run_ddl_statements and
\* insert_relational_data called with no handle return failure without
\* sending any request or changing the database.
C10_NoHandleNoWork ==
    /\ database = None =>
          /\ pc \in {"load", "main", "exit1"}
          /\ log = <<>>
          /\ db_ops = 0
          /\ schema = schema0
    /\ \A ddl_list \in {BaseDDL, GraphDDL} : \A env \in DdlEnv(ddl_list) :
          LET r == run_ddl_statements(None, ddl_list, schema, env) IN
          ~r.ret /\ r.calls = 0 /\ r.schema = schema
    /\ \A outcome \in TxnSignals :
          LET r == insert_relational_data(None, seed, uuid_count, uuid_order,
                                          schema, tables, outcome) IN
          ~r.ret /\ r.calls = 0 /\ r.tables = tables /\ r.inserts = <<>>

C10_Witness ==
    database = None /\ pc = "exit1" /\ runs = 2 /\ schema # {}

\* C11: the seed insert is atomic.  After a load that committed, the tables
\* hold what they held when the run started plus every row the call prepared,
\* for all ten tables; after a load that failed, and before the load, they
\* hold exactly what they held when the run started.
C11_SeedAtomic ==
    IF Loaded /\ log[3].signal = "ok"
    THEN /\ tables = Applied(tables0, table_map(locals))
         /\ \A i \in 1..Len(table_map(locals)) :
               Range(table_map(locals)[i].rows) \subseteq tables[table_map(locals)[i].table]
    ELSE tables = tables0

C11_Witness ==
    /\ Loaded
    /\ log[3].signal = "Unexpected"
    /\ Len(locals.people_rows) > 0
    /\ tables0 # NoTables
    /\ tables = tables0

\* C12: when the database aborts the seed transaction for contention, the
\* transaction was submitted once in that run, the load is reported failed,
\* the process exits with failure and the tables are as the run found them.
C12_AbortNoRetry ==
    \A i \in 1..Len(log) :
        log[i].op = "seed" /\ log[i].signal = "Aborted" =>
            /\ ~log[i].ret
            /\ pc = "exit1"
            /\ db_ops = 3
            /\ tables = tables0

C12_Witness ==
    Loaded /\ log[3].signal = "Aborted" /\ pc = "exit1" /\ db_ops = 3

\* C13: a load on a database that an earlier run seeded successfully leaves
\* the table contents as that earlier run left them.
C13_SeedIdempotent ==
    prev.signal = "ok" /\ Loaded /\ log[3].signal = "ok" => tables = tables0

\* C14: the run after a run whose load was aborted prepares its rows anew with
\* ids none of which the aborted run drew, meets no duplicate key, and when it
\* commits the tables hold what they held before the aborted run plus exactly
\* the rows of this run: one copy of the dataset on a database that was empty.
C14_RetryAfterAbort ==
    prev.signal = "Aborted" /\ Loaded =>
        /\ AllIds(locals) \cap prev.ids = {}
        /\ log[3].signal # "AlreadyExists"
        /\ log[3].signal = "ok" =>
              /\ tables = Applied(prev.tables0, table_map(locals))
              /\ prev.tables0 = NoTables =>
                    \A i \in 1..Len(table_map(locals)) :
                        Cardinality(tables[table_map(locals)[i].table])
                            = Len(table_map(locals)[i].rows)

C14_Witness ==
    /\ prev.signal = "Aborted"
    /\ prev.ids # {}
    /\ prev.tables0 = NoTables
    /\ Loaded
    /\ log[3].signal = "ok"
    /\ Cardinality(tables["Person"]) = Len(seed.people_data)

\* C20: no two Topic rows of the database carry the same name.
C20_TopicNameUnique ==
    \A a, b \in tables["Topic"] : a.name = b.name => a = b

(***************************************************************************)
(* Posts, mentions and locations of a load, checked under SeedSpec.        *)
(***************************************************************************)
NPosts == Len(seed.posts_data)

AuthorAbsent(p) == p.person = None \/ p.person \notin KnownPeople

AbsentAuthors == {i \in 1..NPosts : AuthorAbsent(seed.posts_data[i])}

\* descriptors of a known author whose time offset cannot be computed
BadTimes ==
    {i \in 1..NPosts : ~AuthorAbsent(seed.posts_data[i]) /\ ~seed.posts_data[i].time_ok}

\* no row list of the load has a row
NothingPrepared ==
    \A i \in 1..Len(table_map(locals)) : table_map(locals)[i].rows = <<>>

\* the load fails for no reason of its data: whatever failure there is is the
\* database's abort or unexpected error, and without one (or without a
\* transaction, nothing being prepared) the load succeeds
NoDataFailure ==
    /\ log[3].signal \in TxnSignals \cup {"none"}
    /\ log[3].signal \in {"ok", "none"} => log[3].ret /\ pc = "done"

\* C15 as stated: of N post descriptors exactly one of which has an author
\* absent from the people map, N-1 Post rows are built, one skip is recorded
\* and the load does not fail.
C15_OneAbsentAuthor ==
    Loaded /\ Cardinality(AbsentAuthors) = 1 =>
        /\ Len(locals.posts_rows) = NPosts - 1
        /\ locals.skipped_posts = 1
        /\ NoDataFailure

\* C15: of N post descriptors exactly one of which has an author absent from
\* the people map, every other one having a time offset that can be computed,
\* N-1 Post rows are built, one skip is recorded and the load does not fail.
C15_OneAbsentAuthorOnly ==
    Loaded /\ Cardinality(AbsentAuthors) = 1 /\ BadTimes = {} =>
        /\ Len(locals.posts_rows) = NPosts - 1
        /\ locals.skipped_posts = 1
        /\ NoDataFailure

C15_Witness ==
    /\ Loaded
    /\ NPosts = 2
    /\ seed.posts_data[1].person = "Zed"
    /\ seed.posts_data[2].person = "Alice"
    /\ seed.posts_data[2].time_ok
    /\ Len(locals.posts_rows) = 1
    /\ locals.skipped_posts = 1
    /\ log[3].ret

\* the locals of the call once the first i post descriptors are processed
AfterPost(i) ==
    PrepareRows([seed EXCEPT !.posts_data = SubSeq(@, 1, i)], 0, uuid_order)

UnknownMention(p) == p.mention # None /\ p.mention \notin KnownPeople

\* descriptor i adds a Post row of its author and no Mention row, and no
\* Mention row of the batch carries the id of that Post row
PostWithoutMention(i) ==
    LET before == AfterPost(i - 1)
        after == AfterPost(i)
        k == Len(after.posts_rows)
    IN /\ k = Len(before.posts_rows) + 1
       /\ after.posts_rows[k].author_id = locals.people_map[seed.posts_data[i].person]
       /\ after.mention_rows = before.mention_rows
       /\ SubSeq(locals.posts_rows, 1, k) = after.posts_rows
       /\ \A m \in Range(locals.mention_rows) : m.post_id # after.posts_rows[k].post_id

\* C16 as stated: a post descriptor of a known author whose mention names an
\* unknown person yields its Post row and no Mention row for that post.
C16_UnknownMention ==
    Loaded =>
        \A i \in 1..NPosts :
            ~AuthorAbsent(seed.posts_data[i]) /\ UnknownMention(seed.posts_data[i])
                => PostWithoutMention(i)

\* C16: a post descriptor of a known author, with a time offset that can be
\* computed, whose mention names an unknown person yields its Post row and no
\* Mention row for that post.
C16_UnknownMentionValidTime ==
    Loaded =>
        /\ locals = AfterPost(NPosts)
        /\ \A i \in 1..NPosts :
              /\ ~AuthorAbsent(seed.posts_data[i])
              /\ seed.posts_data[i].time_ok
              /\ UnknownMention(seed.posts_data[i])
              => PostWithoutMention(i)

C16_Witness ==
    /\ Loaded
    /\ NPosts = 2
    /\ seed.posts_data[1] = Post("Alice", "Bob", TRUE)
    /\ seed.posts_data[2] = Post("Alice", "Zed", TRUE)
    /\ Len(locals.posts_rows) = 2
    /\ Len(locals.mention_rows) = 1
    /\ locals.mention_rows[1].post_id = locals.posts_rows[1].post_id

LocKey(l) == <<l.name, l.latitude, l.longitude>>

\* the events of the source whose Event row is built
BuiltEvents ==
    {i \in 1..Len(seed.event_data) :
        LET d == seed.event_data[i].date IN d # None /\ d # "" /\ isoparse(d).ok}

\* the positions at which event i lists a location of key K
Listings(i, K) ==
    {j \in 1..Len(seed.event_data[i].locations) :
        LocKey(seed.event_data[i].locations[j]) = K}

LocationRowsOf(K) ==
    LET HasKey(r) == LocKey(r) = K IN SelectSeq(locals.locations_rows, HasKey)

LinksOf(event_id, location_id) ==
    LET IsLink(r) == r.event_id = event_id /\ r.location_id = location_id
    IN SelectSeq(locals.event_locations_rows, IsLink)

Served == page.status # 0

\* C18: whenever a request for the home page met a failure (no database
\* handle, or a query that failed), the response is the rendered page, it
\* carries a flashed message, and the result set of every failed query, and
\* every result set when there is no handle, is empty.
C18_HomeRendersOnFailure ==
    Served /\ page.failures # {} =>
        /\ page.status = 200
        /\ page.flashed # <<>>
        /\ "posts" \in page.failures \/ "db" \in page.failures => page.posts = <<>>
        /\ "events" \in page.failures \/ "db" \in page.failures
              => page.all_events_attendance = <<>>
        /\ "topics" \in page.failures \/ "db" \in page.failures => page.topics = <<>>

Called == last_query.sql # "none"

\* the error a call of run_query met: the signal of the database, or the
\* ValueError of line 150 when no field names can be found; ok when none
QueryError ==
    IF /\ last_query.env.signal = "ok"
       /\ last_query.expected_fields = <<>>
       /\ ~last_query.env.has_fields
    THEN "ValueError" ELSE last_query.env.signal

\* C19 as stated: with a database handle, run_query answers not-found,
\* permission-denied and invalid-argument with one flashed message and an
\* empty list, raising nothing, and raises every other error to its caller.
C19_OnlyThreeNonFatal ==
    Called /\ db # None =>
        /\ QueryError \in SpannerErrors =>
              /\ last_query.raised = None
              /\ last_query.ret = <<>>
              /\ Len(last_query.flashed) = 1
        /\ QueryError \notin SpannerErrors \cup {"ok"} => last_query.raised = QueryError

\* C19: with a database handle, run_query answers not-found, permission-denied,
\* invalid-argument and a ValueError with one flashed message and an empty
\* list, raising nothing; every other error is flashed and raised to the
\* caller; without an error nothing is flashed or raised.  Without a handle
\* it raises ConnectionError and flashes nothing.
C19_QueryErrorMapping ==
    Called =>
        IF db = None
        THEN last_query.raised = "ConnectionError" /\ last_query.flashed = <<>>
        ELSE /\ QueryError \in SpannerErrors \cup {"ValueError"} =>
                   /\ last_query.raised = None
                   /\ last_query.ret = <<>>
                   /\ Len(last_query.flashed) = 1
             /\ QueryError \in OtherErrors =>
                   /\ last_query.raised = QueryError
                   /\ Len(last_query.flashed) = 1
             /\ QueryError = "ok" =>
                   /\ last_query.raised = None
                   /\ last_query.flashed = <<>>
                   /\ Len(last_query.ret) <= Len(last_query.env.rows)

C19_Witness ==
    /\ Called
    /\ db = DB
    /\ last_query.env.signal = "PermissionDenied"
    /\ last_query.raised = None
    /\ last_query.ret = <<>>
    /\ Len(last_query.flashed) = 1

(***************************************************************************)
(* References of the rows and the insert plan, checked under SeedSpec.     *)
(***************************************************************************)
\* the tables for which the load called transaction.insert, in call order
Issued == log[3].inserts

Before(parent, child) ==
    \A i, j \in 1..Len(Issued) : Issued[i] = parent /\ Issued[j] = child => i < j

\* C21: every Mention row of a load carries the post_id of a Post row and the
\* mentioned_person_id of a Person row of the same load, and the inserts into
\* Person and Post are issued before the insert into Mention.
C21_MentionRefs ==
    Loaded =>
        /\ \A m \in Range(locals.mention_rows) :
              /\ \E p \in Range(locals.posts_rows) : p.post_id = m.post_id
              /\ \E q \in Range(locals.people_rows) : q.person_id = m.mentioned_person_id
        /\ locals.mention_rows # <<>> /\ log[3].signal \in TxnSignals =>
              /\ \E i \in 1..Len(Issued) : Issued[i] = "Mention"
              /\ \E i \in 1..Len(Issued) : Issued[i] = "Post"
              /\ \E i \in 1..Len(Issued) : Issued[i] = "Person"
              /\ Before("Person", "Mention")
              /\ Before("Post", "Mention")

C21_Witness ==
    /\ Loaded
    /\ Len(seed.posts_data) = 2
    /\ seed.posts_data[1] = Post("Alice", "Zed", TRUE)
    /\ seed.posts_data[2] = Post("Alice", "Bob", TRUE)
    /\ Len(locals.mention_rows) = 1
    /\ locals.mention_rows[1].post_id = locals.posts_rows[2].post_id
    /\ log[3].ret

ParentChild ==
    {<<"Person", "Post">>, <<"Person", "Friendship">>, <<"Person", "Attendance">>,
     <<"Person", "Mention">>, <<"Event", "EventLocation">>,
     <<"Location", "EventLocation">>, <<"Topic", "TopicContent">>,
     <<"Post", "Mention">>}

\* C22: the inserts of the seed transaction are issued parent before child
\* (Person before Post, Friendship, Attendance and Mention; Event and Location
\* before EventLocation; Topic before TopicContent; Post before Mention), no
\* table twice, and the plan has one entry for each of the ten tables.
C22_ParentBeforeChild ==
    Loaded =>
        /\ \A pcd \in ParentChild : Before(pcd[1], pcd[2])
        /\ \A i, j \in 1..Len(Issued) : Issued[i] = Issued[j] => i = j
        /\ Len(table_map(locals)) = 10
        /\ {table_map(locals)[i].table : i \in 1..10} = TableNames
        /\ Issued = [i \in 1..Len(insert_data_txn(locals)) |-> insert_data_txn(locals)[i].table]

C22_Witness ==
    /\ Loaded
    /\ log[3].ret
    /\ Len(Issued) = 10
    /\ Issued[1] = "Person"
    /\ Issued[10] = "EventLocation"

\* C23: every Attendance row of a load carries the person_id of a Person row
\* and the event_id of an Event row of the same load.
C23_AttendanceRefs ==
    Loaded =>
        \A a \in Range(locals.attendance_rows) :
            /\ \E q \in Range(locals.people_rows) : q.person_id = a.person_id
            /\ \E e \in Range(locals.events_rows) : e.event_id = a.event_id

SkippedEvents == (1..Len(seed.event_data)) \ BuiltEvents

BuiltNames ==
    LET IsBuilt(e) == e.date # None /\ e.date # "" /\ isoparse(e.date).ok
        built == SelectSeq(seed.event_data, IsBuilt)
    IN [i \in 1..Len(built) |-> built[i].name]

\* C24: an event whose date is missing or cannot be parsed yields no Event
\* row and no EventLocation row, and a location only such events list yields
\* no Location row; every other event of the input has its Event row, in the
\* order of the input, and the load goes on to submit the transaction (when
\* any row was built at all), which commits unless the database aborts it, fails unexpectedly or finds the
\* same key twice among the rows built.
C24_SkippedEvent ==
    Loaded =>
        /\ [i \in 1..Len(locals.events_rows) |-> locals.events_rows[i].name] = BuiltNames
        /\ \A s \in SkippedEvents :
              LET id == locals.event_map[seed.event_data[s].name] IN
              /\ \A e \in Range(locals.events_rows) : e.event_id # id
              /\ \A l \in Range(locals.event_locations_rows) : l.event_id # id
        /\ {LocKey(l) : l \in Range(locals.locations_rows)}
              = UNION {{LocKey(l) : l \in Range(seed.event_data[b].locations)} :
                          b \in BuiltEvents}
        /\ IF NothingPrepared THEN log[3].signal = "none" ELSE db_ops = 3
        /\ log[3].signal \in TxnSignals \cup {"none", "AlreadyExists"}
        /\ log[3].signal = "AlreadyExists" => KeyClash(NoTables, insert_data_txn(locals))
        /\ log[3].signal \in {"ok", "none"} => log[3].ret /\ pc = "done"

C24_Witness ==
    /\ Loaded
    /\ Len(seed.event_data) = 2
    /\ seed.event_data[1].date = "not-a-date"
    /\ seed.event_data[1].locations = <<Hall1>>
    /\ seed.event_data[2].date = DateNaive
    /\ seed.event_data[2].locations = <<Hall2>>
    /\ Len(locals.events_rows) = 1
    /\ Len(locals.locations_rows) = 1
    /\ locals.locations_rows[1].longitude = Hall2.longitude
    /\ Len(locals.event_locations_rows) = 1
    /\ log[3].ret

(***************************************************************************)
(* The schema a successful step leaves, checked under Spec.                *)
(***************************************************************************)
\* C25: whenever the base schema step of a run has reported success, every
\* table and every index of the base schema exists, and whenever the Seed
\* Loader is about to start or has run, the property graph exists too.
C25_BaseReadyComplete ==
    /\ \A i \in 1..Len(log) :
          log[i].op = "base" /\ log[i].ret => Names(BaseDDL) \subseteq schema
    /\ pc = "step3" \/ Loaded => Names(GraphDDL) \subseteq schema

(***************************************************************************)
(* The transaction of a load, checked under SeedSpec.                      *)
(***************************************************************************)
\* C26: when every one of the ten prepared row lists is empty the load makes
\* no call to the database, issues no insert, leaves the tables as they were
\* and reports success; otherwise it runs one transaction, in which insert is
\* issued once for each table whose list is non-empty and for no other table.
C26_EmptyNoTransaction ==
    Loaded =>
        IF NothingPrepared
        THEN /\ db_ops = 2
             /\ Issued = <<>>
             /\ tables = tables0
             /\ log[3].ret
             /\ pc = "done"
        ELSE /\ db_ops = 3
             /\ \A i \in 1..Len(table_map(locals)) :
                   Cardinality({j \in 1..Len(Issued) : Issued[j] = table_map(locals)[i].table})
                       = IF table_map(locals)[i].rows # <<>> THEN 1 ELSE 0

C26_Witness ==
    /\ Loaded
    /\ seed.people_data = <<>>
    /\ Len(seed.event_data) = 1
    /\ Len(seed.posts_data) = 1
    /\ NothingPrepared
    /\ db_ops = 2
    /\ log[3].ret

=============================================================================
